---------------------------- MODULE Spec2Model ----------------------------
(***************************************************************************)
(* Model of mongo_connector/doc_managers/formatters.py: the DataType       *)
(* classifier, DefaultDocumentFormatter and DocumentFlattener.             *)
(*                                                                         *)
(* Python strings are sequences of one-character strings, so that          *)
(* str.startswith, slicing and "%s.%s" formatting are computed.            *)
(* Python values are tagged records:                                       *)
(*   [t |-> "bool", b], [t |-> "int", n], [t |-> "float", f],              *)
(*   [t |-> "str", s], [t |-> "datetime", ts], [t |-> "none"],             *)
(*   [t |-> "uuid", text], [t |-> "regex", pattern, flags],                *)
(*   [t |-> "bytes", bytes],                                               *)
(*   [t |-> "other", repr], [t |-> "list", items], [t |-> "dict", fields]  *)
(* A dict keeps its insertion order: fields is a sequence of [k, v] with   *)
(* distinct keys.  A float is named by its IEEE class: "nan", "inf",       *)
(* "-inf", or the text of a finite value.  An int is a BSON integer (at    *)
(* most 64 bits), which math.isnan and math.isinf convert without overflow.*)
(***************************************************************************)
EXTENDS Integers, Sequences, FiniteSets, TLC

VARIABLES document, pc, frames, path, out, result, op, arg, ret

vars == <<document, pc, frames, path, out, result, op, arg, ret>>

-----------------------------------------------------------------------------
(* Strings *)

startswith(s, p) ==
    /\ Len(p) <= Len(s)
    /\ SubSeq(s, 1, Len(p)) = p

SliceFrom(s, n) == SubSeq(s, n + 1, Len(s))

Digit(d) == CASE d = 0 -> "0" [] d = 1 -> "1" [] d = 2 -> "2" [] d = 3 -> "3"
              [] d = 4 -> "4" [] d = 5 -> "5" [] d = 6 -> "6" [] d = 7 -> "7"
              [] d = 8 -> "8" [] d = 9 -> "9"

RECURSIVE DecStr(_)
DecStr(n) == IF n < 10 THEN <<Digit(n)>>
             ELSE DecStr(n \div 10) \o <<Digit(n % 10)>>

DotJoin(a, b) == a \o <<".">> \o b

RECURSIVE JoinPath(_)
JoinPath(p) == IF Len(p) = 0 THEN <<>>
               ELSE IF Len(p) = 1 THEN p[1]
               ELSE DotJoin(p[1], JoinPath(Tail(p)))

-----------------------------------------------------------------------------
(* Values *)

VBool(b)     == [t |-> "bool", b |-> b]
VInt(n)      == [t |-> "int", n |-> n]
VFloat(f)    == [t |-> "float", f |-> f]
VStr(s)      == [t |-> "str", s |-> s]
VDateTime(n) == [t |-> "datetime", ts |-> n]
VNone       == [t |-> "none"]
VUuid(x)     == [t |-> "uuid", text |-> x]
VRegex(p, f) == [t |-> "regex", pattern |-> p, flags |-> f]
VBytes(bs)   == [t |-> "bytes", bytes |-> bs]
VOther(r)    == [t |-> "other", repr |-> r]
VList(xs)    == [t |-> "list", items |-> xs]
VDict(fs)    == [t |-> "dict", fields |-> fs]

Field(k, v) == [k |-> k, v |-> v]

isnan(v) == v.t = "float" /\ v.f = "nan"
isinf(v) == v.t = "float" /\ v.f \in {"inf", "-inf"}

DictKeys(fs) == {fs[i].k : i \in 1..Len(fs)}

(* dict(pairs): a later pair with a key already present replaces the value *)
(* and keeps the position of the first insertion.                          *)
RECURSIVE DictOf(_)
DictOf(pairs) ==
    IF pairs = <<>> THEN <<>>
    ELSE LET init == DictOf(SubSeq(pairs, 1, Len(pairs) - 1))
             p    == pairs[Len(pairs)]
         IN  IF p.k \in DictKeys(init)
             THEN [i \in 1..Len(init) |-> IF init[i].k = p.k THEN p ELSE init[i]]
             ELSE Append(init, p)

-----------------------------------------------------------------------------
(* class DataType *)

DataType == <<"BOOL", "LONG", "DOUBLE", "STRING", "DICT", "DATETIME",
              "GEOPOINT", "UNKNOWN">>

DataTypeStr(dt) ==
    CASE dt = "BOOL"     -> <<"b","o","o","l">>
      [] dt = "LONG"     -> <<"l","o","n","g">>
      [] dt = "DOUBLE"   -> <<"d","o","u","b","l","e">>
      [] dt = "STRING"   -> <<"s","t","r","i","n","g">>
      [] dt = "DICT"     -> <<"o","b","j","e","c","t">>
      [] dt = "DATETIME" -> <<"d","a","t","e","t","i","m","e">>
      [] dt = "GEOPOINT" -> <<"g","e","o","p","o","i","n","t">>
      [] dt = "UNKNOWN"  -> <<>>

prefix(dt) == IF dt = "UNKNOWN" THEN <<>> ELSE DataTypeStr(dt) \o <<"_">>

isGeoPoint_NoLen(value) ==
    /\ <<"l","a","t">> \in DictKeys(value.fields)
    /\ <<"l","o","n">> \in DictKeys(value.fields)

isGeoPoint(value) ==
    /\ Cardinality(DictKeys(value.fields)) = 2
    /\ <<"l","a","t">> \in DictKeys(value.fields)
    /\ <<"l","o","n">> \in DictKeys(value.fields)

typeForDictValue(value) == IF isGeoPoint(value) THEN "GEOPOINT" ELSE "DICT"

(* The lookup keyed by type(value); a KeyError is caught by the bare except. *)
TypeTable(value) ==
    CASE value.t = "bool"     -> "BOOL"
      [] value.t = "int"      -> "LONG"
      [] value.t = "float"    -> "DOUBLE"
      [] value.t = "str"      -> "STRING"
      [] value.t = "datetime" -> "DATETIME"
      [] OTHER                -> "UNKNOWN"

RECURSIVE forValue(_)
forValue(value) ==
    IF value.t = "dict" THEN typeForDictValue(value)
    ELSE IF value.t = "list"
         THEN IF Len(value.items) = 0 THEN "UNKNOWN"   \* IndexError, caught
              ELSE forValue(value.items[1])
         ELSE TypeTable(value)

RECURSIVE attributeNameFromKeyFrom(_, _)
attributeNameFromKeyFrom(key, i) ==
    IF i > Len(DataType) THEN key
    ELSE IF startswith(key, prefix(DataType[i]))
         THEN SliceFrom(key, Len(prefix(DataType[i])))
         ELSE attributeNameFromKeyFrom(key, i + 1)

attributeNameFromKey_UnknownFirst(key) ==
    attributeNameFromKeyFrom(key, Len(DataType))

attributeNameFromKey(key) == attributeNameFromKeyFrom(key, 1)

-----------------------------------------------------------------------------
(* class DefaultDocumentFormatter *)

RegexFlags(flags) ==
       (IF "IGNORECASE" \in flags THEN <<"i">> ELSE <<>>)
    \o (IF "LOCALE"     \in flags THEN <<"l">> ELSE <<>>)
    \o (IF "MULTILINE"  \in flags THEN <<"m">> ELSE <<>>)
    \o (IF "DOTALL"     \in flags THEN <<"s">> ELSE <<>>)
    \o (IF "UNICODE"    \in flags THEN <<"u">> ELSE <<>>)
    \o (IF "VERBOSE"    \in flags THEN <<"x">> ELSE <<>>)

B64Alphabet ==
    <<"A","B","C","D","E","F","G","H","I","J","K","L","M","N","O","P",
      "Q","R","S","T","U","V","W","X","Y","Z","a","b","c","d","e","f",
      "g","h","i","j","k","l","m","n","o","p","q","r","s","t","u","v",
      "w","x","y","z","0","1","2","3","4","5","6","7","8","9","+","/">>

B64Char(n) == B64Alphabet[n + 1]

RECURSIVE b64encode(_)
b64encode(bs) ==
    IF Len(bs) = 0 THEN <<>>
    ELSE IF Len(bs) = 1
         THEN <<B64Char(bs[1] \div 4), B64Char((bs[1] % 4) * 16), "=", "=">>
    ELSE IF Len(bs) = 2
         THEN <<B64Char(bs[1] \div 4),
                B64Char((bs[1] % 4) * 16 + bs[2] \div 16),
                B64Char((bs[2] % 16) * 4), "=">>
    ELSE <<B64Char(bs[1] \div 4),
           B64Char((bs[1] % 4) * 16 + bs[2] \div 16),
           B64Char((bs[2] % 16) * 4 + bs[3] \div 64),
           B64Char(bs[3] % 64)>> \o b64encode(SubSeq(bs, 4, Len(bs)))

(* UUID.hex: the canonical text without its hyphens *)
UuidHex(text) == SelectSeq(text, LAMBDA c : c # "-")

Yielded(ps, e) == [pairs |-> ps, err |-> e]

Returned(v) == [err |-> "none", val |-> v]
Raised(e)   == [err |-> e, val |-> VNone]

RECURSIVE transform_value(_)
RECURSIVE TransformItems(_, _)
RECURSIVE Default_transform_element(_, _)
RECURSIVE Default_kernel(_, _, _, _, _)
RECURSIVE Default_format_document(_, _)

(* [self.transform_value(v) for v in value]: the first failing element      *)
(* raises out of the comprehension.                                         *)
TransformItems(items, i) ==
    IF i > Len(items) THEN [err |-> "none", vals |-> <<>>]
    ELSE LET head == transform_value(items[i])
         IN  IF head.err # "none" THEN [err |-> head.err, vals |-> <<>>]
             ELSE LET rest == TransformItems(items, i + 1)
                  IN  IF rest.err # "none" THEN rest
                      ELSE [err |-> "none", vals |-> <<head.val>> \o rest.vals]

transform_value(value) ==
    IF value.t = "dict"
    THEN Returned(VDict(Default_format_document(value, FALSE).out))
    ELSE IF value.t = "list"
    THEN LET r == TransformItems(value.items, 1)
         IN  IF r.err # "none" THEN Raised(r.err) ELSE Returned(VList(r.vals))
    ELSE IF value.t = "regex"
    THEN Returned(VStr(<<"/">> \o value.pattern \o <<"/">>
                       \o RegexFlags(value.flags)))
    ELSE IF value.t = "bytes" THEN Returned(VStr(b64encode(value.bytes)))
    ELSE IF value.t = "uuid"  THEN Returned(VStr(UuidHex(value.text)))
    ELSE IF value.t \in {"bool", "int", "float"}
    THEN IF isnan(value) THEN Raised("nan")
         ELSE IF isinf(value) THEN Raised("inf")
         ELSE Returned(value)
    ELSE IF value.t = "datetime" THEN Returned(value)
    ELSE IF value.t = "none"     THEN Returned(value)
    ELSE IF value.t = "str"      THEN Returned(value)      \* unicode(str)
    ELSE Returned(VStr(value.repr))                        \* unicode(value)

Default_transform_element_Uncaught(key, value) ==
    LET r == transform_value(value)
    IN  IF r.err # "none" THEN Yielded(<<>>, "ValueError")
        ELSE Yielded(<<Field(key, r.val)>>, "none")

(* The generator yields one pair; a ValueError of transform_value is caught *)
(* and logged, and the generator ends without a pair.                       *)
Default_transform_element(key, value) ==
    LET r == transform_value(value)
    IN  IF r.err # "none" THEN Yielded(<<>>, "none")
        ELSE Yielded(<<Field(key, r.val)>>, "none")

(* _kernel: new_key is a local of the generator, <<>> while unbound; it is  *)
(* assigned only when the key lacks the prefix, and read at every yield.    *)
Default_kernel(fields, i, first_call, new_key, acc) ==
    IF i > Len(fields) THEN [status |-> "ok", out |-> DictOf(acc)]
    ELSE LET te == Default_transform_element(fields[i].k, fields[i].v)
         IN  IF te.err # "none" THEN [status |-> te.err, out |-> <<>>]
             ELSE IF te.pairs = <<>>
             THEN Default_kernel(fields, i + 1, first_call, new_key, acc)
             ELSE LET new_k == te.pairs[1].k
                      new_v == te.pairs[1].v
                      pre   == prefix(forValue(new_v))
                      nk    == IF first_call
                               THEN IF ~startswith(new_k, pre)
                                    THEN <<pre \o new_k>>
                                    ELSE new_key
                               ELSE <<new_k>>
                  IN  IF nk = <<>>
                      THEN [status |-> "UnboundLocalError", out |-> <<>>]
                      ELSE Default_kernel(fields, i + 1, first_call, nk,
                                          Append(acc, Field(nk[1], new_v)))

Default_format_document(doc, first_call) ==
    Default_kernel(doc.fields, 1, first_call, <<>>, <<>>)

-----------------------------------------------------------------------------
(* class DocumentFlattener *)

RECURSIVE Flattener_transform_element(_, _)
RECURSIVE Flattener_transform_list(_, _, _)
RECURSIVE flatten(_, _, _)
RECURSIVE Flattener_format_document(_)

PrefixKeys(key, fs) == [i \in 1..Len(fs) |-> Field(DotJoin(key, fs[i].k), fs[i].v)]

Flattener_transform_list_KeepsEmpty(key, items, li) ==
    IF Len(items) = 0 THEN Yielded(<<Field(key, VList(items))>>, "none")
    ELSE IF li >= Len(items) THEN Yielded(<<>>, "none")
    ELSE LET head == Flattener_transform_element(DotJoin(key, DecStr(li)),
                                                 items[li + 1])
         IN  IF head.err # "none" THEN head
             ELSE LET rest == Flattener_transform_list(key, items, li + 1)
                  IN  Yielded(head.pairs \o rest.pairs, rest.err)

(* for li, lv in enumerate(value): the pairs of the elements, in order, up  *)
(* to the first element whose transformation raises.                       *)
Flattener_transform_list(key, items, li) ==
    IF li >= Len(items) THEN Yielded(<<>>, "none")
    ELSE LET head == Flattener_transform_element(DotJoin(key, DecStr(li)),
                                                 items[li + 1])
         IN  IF head.err # "none" THEN head
             ELSE LET rest == Flattener_transform_list(key, items, li + 1)
                  IN  Yielded(head.pairs \o rest.pairs, rest.err)

Flattener_transform_element(key, value) ==
    IF value.t = "list" THEN Flattener_transform_list(key, value.items, 0)
    ELSE IF value.t = "dict"
    THEN LET formatted == Flattener_format_document(value)
         IN  IF formatted.status # "ok" THEN Yielded(<<>>, formatted.status)
             ELSE Yielded(PrefixKeys(key, formatted.out), "none")
    ELSE LET r == transform_value(value)
         IN  IF r.err # "none" THEN Yielded(<<>>, "ValueError")
             ELSE Yielded(<<Field(key, r.val)>>, "none")

(* DataType.forValue(new_v).prefix + new_k: prefix is not called, and a     *)
(* bound method plus a str raises TypeError.                                *)
RootKey(new_k, new_v) == [err |-> "TypeError", key |-> <<>>]

(* One field of flatten's loop that is not a dict: the pairs it yields and  *)
(* the exception that ends it, if any.                                      *)
FlattenField(top_level, path_string, k, v) ==
    LET te == Flattener_transform_element(k, v)
    IN  IF top_level
        THEN IF te.pairs # <<>>
             THEN LET rk == RootKey(te.pairs[1].k, te.pairs[1].v)
                  IN  IF rk.err # "none" THEN Yielded(<<>>, rk.err)
                      ELSE Yielded(
                             [i \in 1..Len(te.pairs) |->
                                Field(RootKey(te.pairs[i].k, te.pairs[i].v).key,
                                      te.pairs[i].v)], te.err)
             ELSE te
        ELSE Yielded(PrefixKeys(path_string, te.pairs), te.err)

(* flatten(doc, path) run to its end, from field i on *)
flatten(fields, p, i) ==
    IF i > Len(fields) THEN Yielded(<<>>, "none")
    ELSE LET k    == fields[i].k
             v    == fields[i].v
             head == IF v.t = "dict"
                     THEN flatten(v.fields, Append(p, k), 1)
                     ELSE FlattenField(Len(p) = 0, JoinPath(p), k, v)
         IN  IF head.err # "none" THEN head
             ELSE LET rest == flatten(fields, p, i + 1)
                  IN  Yielded(head.pairs \o rest.pairs, rest.err)

Flattener_format_document(doc) ==
    LET r == flatten(doc.fields, <<>>, 1)
    IN  IF r.err # "none" THEN [status |-> r.err, out |-> <<>>]
        ELSE [status |-> "ok", out |-> DictOf(r.pairs)]

-----------------------------------------------------------------------------
(* Input documents *)

MaxLen == 2

Ka     == <<"a">>
Kb     == <<"b">>
Klat   == <<"l","a","t">>
Klon   == <<"l","o","n">>
Klonga == <<"l","o","n","g","_","a">>

NaN == VFloat("nan")

EmptyDict == VDict(<<>>)
EmptyList == VList(<<>>)

Dict1(k, v)          == VDict(<<Field(k, v)>>)
Dict2(k1, v1, k2, v2) == VDict(<<Field(k1, v1), Field(k2, v2)>>)

NonFinite == {NaN, VFloat("inf"), VFloat("-inf")}

FiniteLeaves ==
    { VBool(TRUE), VInt(2), VFloat("1.5"), VStr(<<"x">>), VDateTime(0), VNone,
      VOther(<<"o","i","d">>), VBytes(<<0, 1>>),
      VUuid(<<"1","2","-","a","b">>),
      VRegex(<<"a","b","+","c">>, {"IGNORECASE", "MULTILINE"}) }

Leaves == FiniteLeaves \cup NonFinite

(* documents of the class docstring and of the geo-point examples *)
DocstringExample ==
    VDict(<<Field(Ka, VInt(2)),
            Field(Kb, Dict1(<<"c">>, Dict1(<<"d">>, VInt(5)))),
            Field(<<"e">>, VList(<<VInt(6), VInt(7), VInt(8)>>))>>)

GeoShapes ==
    { Dict2(Klat, VFloat("1.0"), Klon, VFloat("2.0")),
      Dict2(Klon, VInt(2), Klat, VStr(<<"x">>)),
      VDict(<<Field(Klat, VFloat("1.0")), Field(Klon, VFloat("2.0")),
              Field(<<"a","l","t">>, VFloat("3.0"))>>),
      Dict2(Klat, VFloat("1.0"), Ka, VInt(2)),
      Dict1(Klat, VFloat("1.0")) }

Elems == {VInt(2), NaN, EmptyDict, EmptyList, Dict1(Ka, VInt(2))}

SeqsUpTo(S, n) == UNION {[1..m -> S] : m \in 0..n}

Lists == {VList(xs) : xs \in SeqsUpTo(Elems, MaxLen)}
           \cup {VList(<<VList(<<VInt(2)>>)>>), VList(<<VList(<<EmptyList>>)>>),
                 VList(<<VStr(<<"x">>), VInt(2)>>), VList(<<VNone, VInt(2)>>)}

InnerValues ==
    {VInt(2), NaN, VNone, EmptyDict, EmptyList, Dict1(Ka, VInt(2)),
     Dict1(Ka, NaN), VList(<<VInt(2), VInt(5)>>), VList(<<VInt(2), NaN>>),
     VList(<<Dict1(Ka, VInt(2))>>)}

NestedDicts ==
    {Dict1(k, v) : k \in {Ka, Kb}, v \in InnerValues}
       \cup {Dict2(Ka, v1, Kb, v2) : v1 \in InnerValues,
                                     v2 \in {VInt(2), NaN, Dict1(Ka, VInt(2))}}

RootValues == Leaves \cup Lists \cup GeoShapes \cup NestedDicts

Siblings == {VInt(2), NaN, VNone, Dict1(Ka, VInt(2))}

RootKeyPairs == {<<Ka, Kb>>, <<Kb, Klonga>>}

EmptiesExample == Dict2(Ka, EmptyDict, Kb, EmptyList)

Documents ==
    {EmptyDict, DocstringExample, EmptiesExample}
       \cup {Dict1(k, v) : k \in {Ka, Klonga}, v \in RootValues}
       \cup {Dict2(kk[1], v, kk[2], w) : kk \in RootKeyPairs,
                                        v \in RootValues, w \in Siblings}
       \cup {Dict2(kk[1], w, kk[2], v) : kk \in RootKeyPairs,
                                        v \in RootValues, w \in Siblings}

-----------------------------------------------------------------------------
(* State machine: a caller holding one document and calling the formatters *)

NoValue  == [t |-> "novalue"]
NoResult == [by |-> "none", status |-> "none", out |-> <<>>]

Frame(fields, p) ==
    [fields |-> fields, i |-> 1, top_level |-> (Len(p) = 0),
     path_string |-> JoinPath(p)]

Top == frames[Len(frames)]

Advance(fs) == [fs EXCEPT ![Len(fs)].i = @ + 1]

Init ==
    /\ document \in Documents
    /\ pc = "idle"
    /\ frames = <<>>
    /\ path = <<>>
    /\ out = <<>>
    /\ result = NoResult
    /\ op = "none"
    /\ arg = NoValue
    /\ ret = NoValue

Idle == pc \in {"idle", "done"}

(* DataType.forValue(value) on a field value of the document *)
Call_forValue ==
    /\ Idle
    /\ \E i \in 1..Len(document.fields) :
          /\ op' = "forValue"
          /\ arg' = document.fields[i].v
          /\ ret' = forValue(document.fields[i].v)
    /\ UNCHANGED <<document, pc, frames, path, out, result>>

StripInputs ==
    DictKeys(document.fields)
       \cup DictKeys(Default_format_document(document, TRUE).out)
       \cup {prefix(DataType[j]) \o k :
               j \in 1..Len(DataType), k \in DictKeys(document.fields)}

Call_attributeNameFromKey ==
    /\ Idle
    /\ \E key \in StripInputs :
          /\ op' = "attributeNameFromKey"
          /\ arg' = key
          /\ ret' = attributeNameFromKey(key)
    /\ UNCHANGED <<document, pc, frames, path, out, result>>

Call_transform_value ==
    /\ Idle
    /\ \E i \in 1..Len(document.fields) :
          /\ op' = "transform_value"
          /\ arg' = document.fields[i].v
          /\ ret' = transform_value(document.fields[i].v)
    /\ UNCHANGED <<document, pc, frames, path, out, result>>

Call_transform_element ==
    /\ Idle
    /\ \E i \in 1..Len(document.fields) :
          /\ op' = "transform_element"
          /\ arg' = document.fields[i]
          /\ ret' = Default_transform_element(document.fields[i].k,
                                              document.fields[i].v)
    /\ UNCHANGED <<document, pc, frames, path, out, result>>

Call_Default_format_document_InPlace ==
    /\ Idle
    /\ pc' = "done"
    /\ op' = "Default.format_document"
    /\ arg' = NoValue
    /\ ret' = NoValue
    /\ result' = [by |-> "Default"]
                   @@ Default_format_document(document, TRUE)
    /\ document' = VDict(result'.out)
    /\ UNCHANGED <<frames, path, out>>

(* DefaultDocumentFormatter().format_document(document) *)
Call_Default_format_document ==
    /\ Idle
    /\ pc' = "done"
    /\ op' = "Default.format_document"
    /\ arg' = NoValue
    /\ ret' = NoValue
    /\ result' = [by |-> "Default"]
                   @@ Default_format_document(document, TRUE)
    /\ UNCHANGED <<document, frames, path, out>>

(* DocumentFlattener().format_document(document): flatten(document, []) *)
Call_Flattener_format_document ==
    /\ Idle
    /\ pc' = "flatten"
    /\ op' = "Flattener.format_document"
    /\ arg' = NoValue
    /\ ret' = NoValue
    /\ path' = <<>>
    /\ frames' = <<Frame(document.fields, <<>>)>>
    /\ out' = <<>>
    /\ UNCHANGED <<document, result>>

(* isinstance(v, dict): path.append(k) and the nested flatten(v, path) starts *)
FlattenDescend ==
    /\ pc = "flatten"
    /\ Top.i <= Len(Top.fields)
    /\ Top.fields[Top.i].v.t = "dict"
    /\ path' = Append(path, Top.fields[Top.i].k)
    /\ frames' = Append(frames, Frame(Top.fields[Top.i].v.fields, path'))
    /\ UNCHANGED <<document, pc, out, result, op, arg, ret>>

(* the else branch: the pairs of transform_element(k, v) are yielded *)
FlattenElement ==
    /\ pc = "flatten"
    /\ Top.i <= Len(Top.fields)
    /\ Top.fields[Top.i].v.t # "dict"
    /\ LET r == FlattenField(Top.top_level, Top.path_string,
                             Top.fields[Top.i].k, Top.fields[Top.i].v)
       IN  /\ r.err = "none"
           /\ out' = out \o r.pairs
    /\ frames' = Advance(frames)
    /\ UNCHANGED <<document, pc, path, result, op, arg, ret>>

(* the else branch raising: the exception leaves every generator and dict() *)
FlattenRaise ==
    /\ pc = "flatten"
    /\ Top.i <= Len(Top.fields)
    /\ Top.fields[Top.i].v.t # "dict"
    /\ LET r == FlattenField(Top.top_level, Top.path_string,
                             Top.fields[Top.i].k, Top.fields[Top.i].v)
       IN  /\ r.err # "none"
           /\ result' = [by |-> "Flattener", status |-> r.err, out |-> <<>>]
    /\ pc' = "done"
    /\ UNCHANGED <<document, frames, path, out, op, arg, ret>>

FlattenReturn_NoPop ==
    /\ pc = "flatten"
    /\ Top.i > Len(Top.fields)
    /\ Len(frames) > 1
    /\ frames' = Advance(SubSeq(frames, 1, Len(frames) - 1))
    /\ UNCHANGED <<document, pc, path, out, result, op, arg, ret>>

(* a nested flatten is exhausted: path.pop() and the caller's loop goes on *)
FlattenReturn ==
    /\ pc = "flatten"
    /\ Top.i > Len(Top.fields)
    /\ Len(frames) > 1
    /\ path' = SubSeq(path, 1, Len(path) - 1)
    /\ frames' = Advance(SubSeq(frames, 1, Len(frames) - 1))
    /\ UNCHANGED <<document, pc, out, result, op, arg, ret>>

(* the root flatten is exhausted: dict(...) is returned *)
FlattenFinish ==
    /\ pc = "flatten"
    /\ Top.i > Len(Top.fields)
    /\ Len(frames) = 1
    /\ pc' = "done"
    /\ frames' = <<>>
    /\ result' = [by |-> "Flattener", status |-> "ok", out |-> DictOf(out)]
    /\ UNCHANGED <<document, path, out, op, arg, ret>>

Next ==
    \/ Call_forValue
    \/ Call_attributeNameFromKey
    \/ Call_transform_value
    \/ Call_transform_element
    \/ Call_Default_format_document
    \/ Call_Flattener_format_document
    \/ FlattenDescend
    \/ FlattenElement
    \/ FlattenRaise
    \/ FlattenReturn
    \/ FlattenFinish

Spec == Init /\ [][Next]_vars

(* The stepwise walk and the function flatten agree on every document. *)
WalkAgrees ==
    (pc = "done" /\ result.by = "Flattener")
       => (   result.status = Flattener_format_document(document).status
           /\ result.out = Flattener_format_document(document).out)

-----------------------------------------------------------------------------
(* What the specification expects, for the statements below *)

Mapped == {"bool", "int", "float", "str", "datetime"}

IsScalar(v) == v.t \notin {"list", "dict"}

DataTypes == {DataType[j] : j \in 1..Len(DataType)}

PairSet(fs) == {fs[i] : i \in 1..Len(fs)}

RECURSIVE Concat(_)
Concat(ss) == IF ss = <<>> THEN <<>> ELSE ss[1] \o Concat(Tail(ss))

(* the innermost first element of nested arrays *)
RECURSIVE FirstOf(_)
FirstOf(v) == IF v.t = "list" /\ Len(v.items) > 0 THEN FirstOf(v.items[1]) ELSE v

(* normalisation fails: a non-finite number, alone or inside arrays *)
RECURSIVE NormalizeFails(_)
NormalizeFails(v) ==
    \/ v \in NonFinite
    \/ v.t = "list" /\ \E i \in 1..Len(v.items) : NormalizeFails(v.items[i])

RECURSIVE HasNonFinite(_)
HasNonFinite(v) ==
    \/ v \in NonFinite
    \/ v.t = "list" /\ \E i \in 1..Len(v.items) : HasNonFinite(v.items[i])
    \/ v.t = "dict" /\ \E i \in 1..Len(v.fields) : HasNonFinite(v.fields[i].v)

RECURSIVE HasLeaf(_)
HasLeaf(v) ==
    \/ IsScalar(v)
    \/ v.t = "list" /\ \E i \in 1..Len(v.items) : HasLeaf(v.items[i])
    \/ v.t = "dict" /\ \E i \in 1..Len(v.fields) : HasLeaf(v.fields[i].v)

(* the leaves below key, keyed by the dot-joined path without type prefix *)
RECURSIVE BareLeaves(_, _)
BareLeaves(key, v) ==
    IF v.t = "dict"
    THEN Concat([i \in 1..Len(v.fields) |->
                   BareLeaves(DotJoin(key, v.fields[i].k), v.fields[i].v)])
    ELSE IF v.t = "list"
    THEN Concat([i \in 1..Len(v.items) |->
                   BareLeaves(DotJoin(key, DecStr(i - 1)), v.items[i])])
    ELSE IF v \in NonFinite THEN <<>>
    ELSE <<Field(key, transform_value(v).val)>>

(* the flat mapping of section 4.4: root scalars prefixed, the rest bare *)
ExpectedFlat(doc) ==
    Concat([i \in 1..Len(doc.fields) |->
              LET k == doc.fields[i].k
                  v == doc.fields[i].v
              IN  IF ~IsScalar(v) THEN BareLeaves(k, v)
                  ELSE IF v \in NonFinite THEN <<>>
                  ELSE LET nv == transform_value(v).val
                       IN  <<Field(prefix(forValue(nv)) \o k, nv)>>])

(* the shallow mapping of section 4.4: one entry per field that normalises *)
ExpectedShallow(doc) ==
    Concat([i \in 1..Len(doc.fields) |->
              LET k == doc.fields[i].k
                  v == doc.fields[i].v
              IN  IF NormalizeFails(v) THEN <<>>
                  ELSE LET nv  == transform_value(v).val
                           pre == prefix(forValue(nv))
                       IN  <<Field(IF startswith(k, pre) THEN k ELSE pre \o k,
                                   nv)>>])

(* the document without the fields, at any depth of objects, that hold no leaf *)
RECURSIVE Prune(_)
Prune(v) ==
    IF v.t # "dict" THEN v
    ELSE LET kept == SelectSeq(v.fields, LAMBDA f : HasLeaf(f.v))
         IN  VDict([i \in 1..Len(kept) |-> Field(kept[i].k, Prune(kept[i].v))])

FlattenerDone == pc = "done" /\ result.by = "Flattener"
DefaultDone   == pc = "done" /\ result.by = "Default"

EnclosingKeys ==
    [j \in 1..(Len(frames) - 1) |-> frames[j].fields[frames[j].i].k]

-----------------------------------------------------------------------------
(* C1: DocumentFlattener.format_document returns, for every document whose *)
(* leaves are finite scalars, a mapping that holds each root-level scalar   *)
(* field k under prefix(classify(v)) + k, and for the docstring document    *)
(* exactly long_a, b.c.d, e.0, e.1, e.2.                                    *)
C1_RootScalarsPrefixed ==
    (FlattenerDone /\ ~HasNonFinite(document)) =>
       /\ result.status = "ok"
       /\ \A i \in 1..Len(document.fields) :
             IsScalar(document.fields[i].v) =>
                LET nv == transform_value(document.fields[i].v).val
                IN  Field(prefix(forValue(nv)) \o document.fields[i].k, nv)
                       \in PairSet(result.out)
       /\ document = DocstringExample =>
             PairSet(result.out) =
                { Field(Klonga, VInt(2)),
                  Field(<<"b",".","c",".","d">>, VInt(5)),
                  Field(<<"e",".","0">>, VInt(6)),
                  Field(<<"e",".","1">>, VInt(7)),
                  Field(<<"e",".","2">>, VInt(8)) }

(* C2: in flattening mode a non-finite number anywhere in the document      *)
(* never makes format_document raise; its field is omitted and every other  *)
(* leaf appears with the key and value it would have had.                   *)
C2_NonFiniteDropped ==
    (FlattenerDone /\ HasNonFinite(document)) =>
       /\ result.status # "ValueError"
       /\ result.status = "ok" =>
             PairSet(result.out) = PairSet(ExpectedFlat(document))

(* C3: DefaultDocumentFormatter.format_document returns exactly one entry   *)
(* per field that normalises, keyed prefix + k, or k when k already starts  *)
(* with the prefix (the empty prefix included), and never fails.            *)
C3_ShallowPrefixed ==
    DefaultDone =>
       /\ result.status = "ok"
       /\ result.out = ExpectedShallow(document)

(* C4: transform_value fails with "nan" exactly for NaN, with "inf" exactly *)
(* for an infinity, and returns every finite number unchanged;              *)
(* transform_element yields no pair and no failure when normalisation       *)
(* fails, and otherwise exactly one pair with the key unchanged.            *)
C4_NonFiniteRejected ==
    /\ (op = "transform_value" /\ arg.t \in {"int", "float", "bool"}) =>
          /\ (ret.err = "nan") <=> (arg = VFloat("nan"))
          /\ (ret.err = "inf") <=> (arg \in {VFloat("inf"), VFloat("-inf")})
          /\ (arg \notin NonFinite) => (ret = [err |-> "none", val |-> arg])
    /\ (op = "transform_element") =>
          /\ ret.err = "none"
          /\ NormalizeFails(arg.v) => ret.pairs = <<>>
          /\ ~NormalizeFails(arg.v) =>
                /\ Len(ret.pairs) = 1
                /\ ret.pairs[1].k = arg.k
                /\ ret.pairs[1].v = transform_value(arg.v).val
                /\ IsScalar(arg.v) /\ arg.v.t \in {"int", "float", "bool"}
                      => ret.pairs[1].v = arg.v

C4_Witness ==
    \/ op = "transform_value" /\ arg = VFloat("-inf") /\ ret.err = "inf"
    \/ op = "transform_element" /\ arg.v = NaN /\ ret.pairs = <<>>

(* C5: forValue never raises; an object is GEOPOINT iff its key set is      *)
(* exactly {lat, lon} and DICT otherwise; a non-empty array has the type of *)
(* its first element, to any depth; an empty array or an unmapped runtime   *)
(* type is UNKNOWN.                                                         *)
C5_ForValueTotal ==
    (op = "forValue") =>
       LET v == FirstOf(arg)
       IN  /\ ret \in DataTypes
           /\ v.t = "dict" =>
                 ret = IF DictKeys(v.fields) = {Klat, Klon}
                       THEN "GEOPOINT" ELSE "DICT"
           /\ v.t = "list" => ret = "UNKNOWN"
           /\ (IsScalar(v) /\ v.t \notin Mapped) => ret = "UNKNOWN"
           /\ (IsScalar(v) /\ v.t \in Mapped) =>
                 ret \in {"BOOL", "LONG", "DOUBLE", "STRING", "DATETIME"}
           /\ (arg.t = "list" /\ Len(arg.items) > 0) =>
                 ret = forValue(arg.items[1])

C5_Witness ==
    /\ op = "forValue"
    /\ \/ arg.t = "dict" /\ Len(arg.fields) = 3
             /\ {Klat, Klon} \subseteq DictKeys(arg.fields) /\ ret = "DICT"
       \/ arg = VList(<<VList(<<VInt(2)>>)>>) /\ ret = "LONG"

(* C6: for every DataType t but UNKNOWN and every name n,                   *)
(* attributeNameFromKey(t.prefix() + n) = n whatever n starts with, and a   *)
(* key that starts with no non-empty prefix is returned unchanged.          *)
C6_StripRoundTrip ==
    (op = "attributeNameFromKey") =>
       /\ \A t \in DataTypes \ {"UNKNOWN"} :
             startswith(arg, prefix(t)) => prefix(t) \o ret = arg
       /\ (\A t \in DataTypes \ {"UNKNOWN"} : ~startswith(arg, prefix(t)))
             => ret = arg

C6_Witness ==
    /\ op = "attributeNameFromKey"
    /\ arg = prefix("STRING") \o Klonga
    /\ ret = Klonga

(* C7: empty structures contribute no keys and never make flattening       *)
(* raise: a document without a leaf flattens to the empty mapping, and the  *)
(* result of any document is the result of the document without its empty   *)
(* structures.                                                              *)
C7_EmptyVanish ==
    FlattenerDone =>
       /\ ~HasLeaf(document) => (result.status = "ok" /\ result.out = <<>>)
       /\ result.status = Flattener_format_document(Prune(document)).status
       /\ result.out = Flattener_format_document(Prune(document)).out

C7_Witness ==
    /\ FlattenerDone
    /\ document = EmptiesExample
    /\ result.status = "ok"
    /\ result.out = <<>>

(* C8: every key produced below the document root is the dot-joined path of *)
(* field keys and array indices without a type prefix, also for the fields  *)
(* of an object that is an element of an array, and such a document is      *)
(* flattened without raising.                                               *)
C8_NestedKeysBare ==
    (/\ FlattenerDone
     /\ ~HasNonFinite(document)
     /\ \A i \in 1..Len(document.fields) : document.fields[i].v.t = "dict") =>
       /\ result.status = "ok"
       /\ PairSet(result.out) = PairSet(ExpectedFlat(document))

(* C9: the walk is depth-first and path-scoped: while flatten runs, the     *)
(* accumulated path is exactly the keys of the objects enclosing the field  *)
(* at hand, the keys it emits are built from that path, and the path is     *)
(* empty again when the walk of the root document ends.                     *)
C9_PathScoped ==
    /\ pc = "flatten" =>
          /\ path = EnclosingKeys
          /\ Top.top_level = (Len(frames) = 1)
          /\ ~Top.top_level => Top.path_string = JoinPath(EnclosingKeys)
    /\ (FlattenerDone /\ result.status = "ok") => path = <<>>

C9_Witness ==
    /\ pc = "flatten"
    /\ Len(frames) = 2
    /\ Top.i = 2
    /\ Top.i <= Len(Top.fields)
    /\ frames[1].fields[1].v.fields[1].v.t = "dict"
    /\ path = <<frames[1].fields[1].k>>
    /\ out # <<>>

(* C10: format_document of either formatter leaves its input document       *)
(* unchanged and carries no state to the next call: a call that follows a   *)
(* call of the same formatter, failed or not, gives the same result.        *)
C10_InputUnchanged ==
    [][/\ document' = document
       /\ (result'.by = result.by) => (result' = result)]_vars

C10_Witness ==
    /\ pc = "flatten"
    /\ result.by = "Flattener"
    /\ result.status = "ValueError"
    /\ path # <<>>

=============================================================================
